---- MODULE Spec2Model ----
(***************************************************************************)
(* A model of squash's OwnedSlice (src/src/lib.rs): a one-word handle to   *)
(* a single allocation holding a header (the encoded length and the        *)
(* ownership policy) followed by the elements, with a static sentinel      *)
(* address standing for the empty slice.                                   *)
(*                                                                         *)
(* Memory is modelled by address: the allocator owns the addresses         *)
(* 1..MaxAddr, a block records the layout it was allocated with, the       *)
(* header written at offset 0, the byte offset at which the elements were  *)
(* written and the elements, so that the offsets recomputed by deref and   *)
(* drop have to agree with the ones new used.                              *)
(***************************************************************************)
EXTENDS Integers, Sequences, FiniteSets, TLC

VARIABLES H, T, handles, heap, pc, last

vars == <<H, T, handles, heap, pc, last>>

(* ------------------------------ bounds -------------------------------- *)

\* handle slots (local variables of the caller, or one per thread)
MaxHandles == 2
\* addresses the allocator can hand out
MaxAddr == 2
\* longest source of the small specifications
MaxLen == 2
\* elements the heap of the sequential specification has room for
MaxCells == 4
\* longest source of the length specification
MaxSrcLen == 300

(* ------------------------- program constants -------------------------- *)

\* u8::MAX
U8_MAX == 255

\* the null address: never a NonNull<H>
NULL == 0

Addrs == 1..MaxAddr

\* the address of the static ZERO_SENTINEL: not one the allocator returns
ZERO_SENTINEL == MaxAddr + 1

Slots == 1..MaxHandles

\* the element values: the code never inspects an element, so two values
\* that can be told apart show every reordering, loss or aliasing
Vals == {1, 2}

(* --------------------------- type parameters -------------------------- *)

\* the element types the tests instantiate: u8 and String (64-bit target)
ElemTypes ==
    { [name |-> "u8", size |-> 1, align |-> 1, needs_drop |-> FALSE],
      [name |-> "String", size |-> 24, align |-> 8, needs_drop |-> TRUE] }

\* the header types: the default one, and a reference-counted one
HeaderTypes == {"BoxHeader", "SharedHeader"}

\* struct BoxHeader(u8)
BoxHeaderLayout == [size |-> 1, align |-> 1]

\* a shared header: the one-byte length beside a word-sized count
SharedHeaderLayout == [size |-> 16, align |-> 8]

\* Layout::new::<H>()
HeaderLayout(h) == IF h = "BoxHeader" THEN BoxHeaderLayout ELSE SharedHeaderLayout

(* ------------------------------- Layout ------------------------------- *)

Max(a, b) == IF a >= b THEN a ELSE b

\* Layout::padding_needed_for
padding_needed_for(size, align) == (align - (size % align)) % align

\* Layout::array::<E>(n)
LayoutArray(esize, ealign, n) == [size |-> esize * n, align |-> ealign]

\* Layout::extend: the combined layout and the offset of `next` in it
LayoutExtend(l, next) ==
    LET off == l.size + padding_needed_for(l.size, next.align)
    IN  [layout |-> [size |-> off + next.size, align |-> Max(l.align, next.align)],
         offset |-> off]

(* ------------------------------ headers ------------------------------- *)

\* extra_needed with the comparison off by one
extra_needed_mut(h, n) ==
    IF n > U8_MAX + 1 THEN [ok |-> FALSE, extra |-> 0] ELSE [ok |-> TRUE, extra |-> 0]

\* BoxHeader::extra_needed: no overflow bytes, or TooLong
extra_needed(h, n) ==
    IF n > U8_MAX THEN [ok |-> FALSE, extra |-> 0] ELSE [ok |-> TRUE, extra |-> 0]

\* the assertion BoxHeader::encode_len makes on its argument
encode_len_assert(n) == n <= U8_MAX

\* BoxHeader::encode_len: Self(len as u8)
BoxHeader_encode_len(n) == [len |-> n % (U8_MAX + 1)]

\* the shared header keeps the same one-byte length, checked and decoded as
\* BoxHeader's is, beside a reference count that starts at one
SharedHeader_encode_len(n) == [len |-> n % (U8_MAX + 1), rc |-> 1]

\* H::encode_len
encode_len(h, n) ==
    IF h = "BoxHeader" THEN BoxHeader_encode_len(n) ELSE SharedHeader_encode_len(n)

\* decode_len off by one
decode_len_mut(hdr) == hdr.len + 1

\* BoxHeader::decode_len: self.0 as usize
decode_len(hdr) == hdr.len

\* inc granting a share it does not count
BoxHeader_inc_mut(hdr) == TRUE

\* BoxHeader::inc
BoxHeader_inc(hdr) == FALSE

\* BoxHeader::dec
BoxHeader_dec(hdr) == TRUE

\* the shared header's acquire_reference: an atomic increment, always granted
SharedHeader_inc(hdr) == TRUE

\* the shared header's release_reference: an atomic decrement that reports
\* whether the count it found was the last one
SharedHeader_dec(hdr) == hdr.rc = 1

\* H::inc as a result and as an effect on the header
Header_inc(h, hdr) == IF h = "BoxHeader" THEN BoxHeader_inc(hdr) ELSE SharedHeader_inc(hdr)

HeaderAfterInc(h, hdr) == IF h = "BoxHeader" THEN hdr ELSE [hdr EXCEPT !.rc = @ + 1]

\* H::dec as a result and as an effect on the header
Header_dec(h, hdr) == IF h = "BoxHeader" THEN BoxHeader_dec(hdr) ELSE SharedHeader_dec(hdr)

HeaderAfterDec(h, hdr) == IF h = "BoxHeader" THEN hdr ELSE [hdr EXCEPT !.rc = @ - 1]

(* ------------------------- layout of an allocation -------------------- *)

NoLayout == [size |-> 0, align |-> 1]

\* OwnedSlice::layout_and_offsets
layout_and_offsets(t, h, n) ==
    LET e == extra_needed(h, n)
    IN  IF ~e.ok
        THEN [ok |-> FALSE, layout |-> NoLayout, len_off |-> 0, data_off |-> 0]
        ELSE LET s1 == LayoutExtend(HeaderLayout(h), LayoutArray(1, 1, e.extra))
                 s2 == LayoutExtend(s1.layout, LayoutArray(t.size, t.align, n))
             IN  [ok |-> TRUE, layout |-> s2.layout,
                  len_off |-> s1.offset, data_off |-> s2.offset]

\* OwnedSlice::layout
layout(t, h, n) == layout_and_offsets(t, h, n).layout

\* data_offset taking the length's offset out of the triple
data_offset_mut(t, h, n) == layout_and_offsets(t, h, n).len_off

\* OwnedSlice::data_offset
data_offset(t, h, n) == layout_and_offsets(t, h, n).data_off

(* ------------------------------- memory ------------------------------- *)

EmptyMem == <<>>

NoHeader == [len |-> 0, rc |-> 0]

\* a block the allocator does not consider allocated; of an allocated one,
\* layout is the layout alloc was given, n the length new was given, hdr the
\* header at offset 0, and data the element cells, the first at offset off
FreeBlock ==
    [live |-> FALSE, layout |-> NoLayout, off |-> 0, n |-> 0,
     hdr |-> NoHeader, data |-> EmptyMem]

\* what is read at address p
Block(hp, p) == IF p \in Addrs THEN hp[p] ELSE FreeBlock

\* is_sentinel never recognising the sentinel
is_sentinel_mut(p) == FALSE

\* OwnedSlice::is_sentinel
is_sentinel(p) == p = ZERO_SENTINEL

\* OwnedSlice::len of the handle at address p
len(hp, p) == IF is_sentinel(p) THEN 0 ELSE decode_len(Block(hp, p).hdr)

\* an element read from memory never written reads as this
Uninit == [v |-> 0, drops |-> 0]

\* the index in blk.data of the cell at byte offset o (0: none is there)
CellAt(blk, t, o) ==
    LET d == o - blk.off
    IN  IF d >= 0 /\ d % t.size = 0 /\ (d \div t.size) < Len(blk.data)
        THEN (d \div t.size) + 1
        ELSE 0

ReadCell(blk, t, o) == IF CellAt(blk, t, o) = 0 THEN Uninit ELSE blk.data[CellAt(blk, t, o)]

\* Deref::deref: the view of the handle at address p
deref(hp, t, h, p) ==
    IF is_sentinel(p) THEN <<>>
    ELSE LET n == len(hp, p)
         IN  [i \in 1..n |-> ReadCell(Block(hp, p), t, data_offset(t, h, n) + (i - 1) * t.size).v]

(* ------------------------- record of the last call -------------------- *)

\* how often the call reached the allocator, the header and the elements'
\* teardown; inc_true counts the calls of inc that returned true
NoCalls ==
    [alloc |-> 0, dealloc |-> 0, inc |-> 0, inc_true |-> 0, dec |-> 0, decode |-> 0,
     encode |-> 0, drop_in_place |-> 0]

\* what a deallocation found: whether the block was not allocated, the layout
\* passed to dealloc, the layout the block was allocated with, how many
\* elements it held and how often each of them had been torn down
NoFree ==
    [bad |-> FALSE, layout |-> NoLayout, allocated |-> NoLayout, cells |-> 0,
     cellDrops |-> {}]

\* op: the operation; h: the slot of the handle it was called on (0: none, or
\* consumed by the call); n: the slot of the handle it returned (0: none);
\* sentinel: whether the handle it was called on was the sentinel; src: the
\* source new was given; view: the view deref returned
Call(op, h, n, p, result, src, view, calls, free) ==
    [op |-> op, h |-> h, n |-> n, sentinel |-> (p = ZERO_SENTINEL),
     result |-> result, src |-> src, view |-> view, calls |-> calls, free |-> free]

(* ------------------------------ operations ---------------------------- *)

Live == DOMAIN handles

Idle(h) == h \in Live /\ pc[h] = "idle"

\* a new handle is bound to the first unused slot
FreeSlot(n) == n \in Slots \ Live /\ \A m \in Slots \ Live : n <= m

\* Default::default: the handle at the sentinel's address
default == ZERO_SENTINEL

\* new without the empty case
is_empty_mut(src) == FALSE

\* src.is_empty(): new answers with the sentinel
is_empty(src) == src = <<>>

\* new writing the clones in reverse
Populate_mut(src) == [i \in 1..Len(src) |-> [v |-> src[Len(src) + 1 - i], drops |-> 0]]

\* the element cells new writes: src[i].clone() at data_ptr.add(i)
Populate(src) == [i \in 1..Len(src) |-> [v |-> src[i], drops |-> 0]]

\* OwnedSlice::new(src) into slot n; op, h, p and c name the caller (clone
\* calls new on its own view) and the calls it has already made
Construct(n, src, op, h, p, c) ==
    LET given == IF op = "new" THEN src ELSE <<>>
    IN
    IF is_empty(src)
    THEN /\ handles' = (n :> default) @@ handles
         /\ heap' = heap
         /\ last' = Call(op, h, n, p, "Ok", given, <<>>, c, NoFree)
    ELSE LET lo == layout_and_offsets(T, H, Len(src))
         IN  IF ~lo.ok
             THEN /\ UNCHANGED <<handles, heap>>
                  /\ last' = Call(op, h, 0, p, "TooLong", given, <<>>, c, NoFree)
             ELSE \E a \in Addrs :
                    /\ ~heap[a].live
                    /\ IF ~encode_len_assert(Len(src))
                       THEN \* the assertion unwinds: the allocation is leaked
                            /\ heap' = [heap EXCEPT ![a] =
                                 [live |-> TRUE, layout |-> lo.layout, off |-> lo.data_off,
                                  n |-> Len(src), hdr |-> NoHeader, data |-> EmptyMem]]
                            /\ handles' = handles
                            /\ last' = Call(op, h, 0, p, "panic", given, <<>>,
                                            [c EXCEPT !.alloc = @ + 1], NoFree)
                       ELSE /\ heap' = [heap EXCEPT ![a] =
                                 [live |-> TRUE, layout |-> lo.layout, off |-> lo.data_off,
                                  n |-> Len(src), hdr |-> encode_len(H, Len(src)),
                                  data |-> Populate(src)]]
                            /\ handles' = (n :> a) @@ handles
                            /\ last' = Call(op, h, n, p, "Ok", given, <<>>,
                                            [c EXCEPT !.alloc = @ + 1, !.encode = @ + 1],
                                            NoFree)

\* let n = OwnedSlice::new(src)
New(n, src) ==
    /\ FreeSlot(n)
    /\ Construct(n, src, "new", 0, NULL, NoCalls)
    /\ UNCHANGED <<H, T, pc>>

\* the header at p after inc
AfterInc(hp, h, p) ==
    IF p \in Addrs THEN [hp EXCEPT ![p].hdr = HeaderAfterInc(h, @)] ELSE hp

\* let n = h.clone()
Clone(h, n) ==
    /\ Idle(h)
    /\ FreeSlot(n)
    /\ LET p == handles[h]
           hdr == Block(heap, p).hdr
       IN  IF ~is_sentinel(p) /\ Header_inc(H, hdr)
           THEN /\ heap' = AfterInc(heap, H, p)
                /\ handles' = (n :> p) @@ handles
                /\ last' = Call("clone", h, n, p, "Ok", <<>>, <<>>,
                                [NoCalls EXCEPT !.inc = 1, !.inc_true = 1], NoFree)
           ELSE Construct(n, deref(heap, T, H, p), "clone", h, p,
                          IF is_sentinel(p) THEN NoCalls
                          ELSE [NoCalls EXCEPT !.inc = 1, !.decode = 1])
    /\ UNCHANGED <<H, T, pc>>

\* h.deref(), and h.len()
Deref(h) ==
    /\ Idle(h)
    /\ LET p == handles[h]
       IN  last' = Call("deref", 0, 0, p, "Ok", <<>>, deref(heap, T, H, p),
                        IF is_sentinel(p) THEN NoCalls ELSE [NoCalls EXCEPT !.decode = 1],
                        NoFree)
    /\ UNCHANGED <<H, T, handles, heap, pc>>

\* h[i] = v through DerefMut::deref_mut, which only BoxHeader has: the old
\* element is torn down and the new one moved in; an index past the end panics
Write(h, i, v) ==
    /\ Idle(h)
    /\ H = "BoxHeader"
    /\ i <= len(heap, handles[h])
    /\ LET p == handles[h]
           n == len(heap, p)
           j == CellAt(Block(heap, p), T, data_offset(T, H, n) + i * T.size)
           c == IF is_sentinel(p) THEN NoCalls ELSE [NoCalls EXCEPT !.decode = 1]
       IN  IF i >= n
           THEN /\ heap' = heap
                /\ last' = Call("write", h, 0, p, "panic", <<>>, <<>>, c, NoFree)
           ELSE /\ heap' = IF p \in Addrs /\ j # 0
                           THEN [heap EXCEPT ![p].data = [@ EXCEPT ![j] = [v |-> v, drops |-> 0]]]
                           ELSE heap
                /\ last' = Call("write", h, 0, p, "Ok", <<>>, <<>>,
                                [c EXCEPT !.drop_in_place = IF T.needs_drop THEN 1 ELSE 0],
                                NoFree)
    /\ UNCHANGED <<H, T, handles, pc>>

(* -------------------------------- drop -------------------------------- *)

\* drop not looking at what dec returned
drop_is_last_mut(h, hdr) == TRUE

\* `if self.header.as_ref().dec()`: whether this drop has to tear down and free
drop_is_last(h, hdr) == Header_dec(h, hdr)

\* the header at p after dec
AfterDec(hp, h, p) ==
    IF p \in Addrs THEN [hp EXCEPT ![p].hdr = HeaderAfterDec(h, @)] ELSE hp

\* drop without the elements' teardown
Teardown_mut(hp, t, h, p) == hp

\* ptr::drop_in_place on each of the len elements at data(len), when
\* mem::needs_drop::<T>()
Teardown(hp, t, h, p) ==
    LET n == len(hp, p)
        first == data_offset(t, h, n)
        \* whether data(len).add(i), for some i in 0..len, is the cell at offset o
        torn(o) == o >= first /\ (o - first) % t.size = 0 /\ (o - first) \div t.size < n
    IN  IF t.needs_drop /\ p \in Addrs
        THEN [hp EXCEPT ![p].data =
                [j \in 1..Len(hp[p].data) |->
                    IF torn(hp[p].off + (j - 1) * t.size)
                    THEN [v |-> hp[p].data[j].v, drops |-> hp[p].data[j].drops + 1]
                    ELSE hp[p].data[j]]]
        ELSE hp

\* what alloc::dealloc(ptr, Self::layout(len)) is handed and finds
FreeInfo(hp, t, h, p) ==
    LET blk == Block(hp, p)
    IN  [bad |-> ~blk.live, layout |-> layout(t, h, len(hp, p)),
         allocated |-> blk.layout, cells |-> Len(blk.data),
         cellDrops |-> {blk.data[j].drops : j \in 1..Len(blk.data)}]

\* alloc::dealloc
Dealloc(hp, p) == IF p \in Addrs THEN [hp EXCEPT ![p] = FreeBlock] ELSE hp

\* the calls a drop that found itself last makes
LastDropCalls(hp, t, p) ==
    [NoCalls EXCEPT !.dec = 1, !.decode = 1, !.dealloc = 1,
                    !.drop_in_place = IF t.needs_drop THEN len(hp, p) ELSE 0]

Forget(h) == [g \in Live \ {h} |-> handles[g]]

\* drop(h), run to completion
Drop(h) ==
    /\ Idle(h)
    /\ LET p == handles[h]
           hdr == Block(heap, p).hdr
           hp1 == AfterDec(heap, H, p)
           hp2 == Teardown(hp1, T, H, p)
       IN  IF is_sentinel(p)
           THEN /\ heap' = heap
                /\ last' = Call("drop", 0, 0, p, "Ok", <<>>, <<>>, NoCalls, NoFree)
           ELSE IF drop_is_last(H, hdr)
                THEN /\ heap' = Dealloc(hp2, p)
                     /\ last' = Call("drop", 0, 0, p, "Ok", <<>>, <<>>,
                                     LastDropCalls(hp1, T, p), FreeInfo(hp2, T, H, p))
                ELSE /\ heap' = hp1
                     /\ last' = Call("drop", 0, 0, p, "Ok", <<>>, <<>>,
                                     [NoCalls EXCEPT !.dec = 1], NoFree)
    /\ handles' = Forget(h)
    /\ UNCHANGED <<H, T, pc>>

\* drop(h) on a thread of its own, first step: the sentinel test and dec
DropDec(h) ==
    /\ Idle(h)
    /\ LET p == handles[h]
           hdr == Block(heap, p).hdr
       IN  IF is_sentinel(p)
           THEN /\ UNCHANGED <<heap, pc>>
                /\ handles' = Forget(h)
                /\ last' = Call("drop", 0, 0, p, "Ok", <<>>, <<>>, NoCalls, NoFree)
           ELSE /\ heap' = AfterDec(heap, H, p)
                /\ last' = Call("dec", 0, 0, p, "Ok", <<>>, <<>>,
                                [NoCalls EXCEPT !.dec = 1], NoFree)
                /\ IF drop_is_last(H, hdr)
                   THEN /\ pc' = [pc EXCEPT ![h] = "last"]
                        /\ handles' = handles
                   ELSE /\ pc' = pc
                        /\ handles' = Forget(h)
    /\ UNCHANGED <<H, T>>

\* second step of the drop that found itself last: len, layout, teardown
DropTeardown(h) ==
    /\ h \in Live
    /\ pc[h] = "last"
    /\ LET p == handles[h]
       IN  /\ heap' = Teardown(heap, T, H, p)
           /\ last' = Call("teardown", 0, 0, p, "Ok", <<>>, <<>>,
                           [LastDropCalls(heap, T, p) EXCEPT !.dec = 0, !.dealloc = 0],
                           NoFree)
    /\ pc' = [pc EXCEPT ![h] = "torn"]
    /\ UNCHANGED <<H, T, handles>>

\* third step: dealloc
DropDealloc(h) ==
    /\ h \in Live
    /\ pc[h] = "torn"
    /\ LET p == handles[h]
       IN  /\ heap' = Dealloc(heap, p)
           /\ last' = Call("dealloc", 0, 0, p, "Ok", <<>>, <<>>,
                           [NoCalls EXCEPT !.dealloc = 1], FreeInfo(heap, T, H, p))
    /\ handles' = Forget(h)
    /\ pc' = [pc EXCEPT ![h] = "idle"]
    /\ UNCHANGED <<H, T>>

(* --------------------------- specifications --------------------------- *)

\* every source of at most MaxLen elements
SmallSrcs == UNION {[1..k -> Vals] : k \in 0..MaxLen}

\* the source of length k that runs through the values from the one after seed
Pattern(k, seed) == [i \in 1..k |-> ((i + seed) % Cardinality(Vals)) + 1]

\* one source of every length up to MaxLen
ConcSrcs == {Pattern(k, 0) : k \in 0..MaxLen}

\* one source of every length up to MaxSrcLen
LenSrcs == {Pattern(k, 0) : k \in 0..MaxSrcLen}

Init ==
    /\ H \in HeaderTypes
    /\ T \in ElemTypes
    /\ handles = <<>>
    /\ heap = [a \in Addrs |-> FreeBlock]
    /\ pc = [s \in Slots |-> "idle"]
    /\ last = Call("init", 0, 0, NULL, "Ok", <<>>, <<>>, NoCalls, NoFree)

\* one thread and the default header: every operation runs to completion
InitSeq == Init /\ H = "BoxHeader" /\ T.needs_drop

RECURSIVE CellsIn(_, _)
CellsIn(hp, as) ==
    IF as = {} THEN 0
    ELSE LET a == CHOOSE x \in as : TRUE
         IN  (IF hp[a].live THEN hp[a].n ELSE 0) + CellsIn(hp, as \ {a})

\* whether the heap has room for k more elements
Fits(k) == CellsIn(heap, Addrs) + k <= MaxCells

Next ==
    \/ \E n \in Slots, src \in SmallSrcs : Fits(Len(src)) /\ New(n, src)
    \/ \E h \in Slots, n \in Slots : h \in Live /\ Fits(len(heap, handles[h])) /\ Clone(h, n)
    \/ \E h \in Slots : Deref(h)
    \/ \E h \in Slots, i \in 0..MaxLen, v \in Vals : Write(h, i, v)
    \/ \E h \in Slots : Drop(h)

Spec == InitSeq /\ [][Next]_vars

\* sources of every length up to and past the capacity of the header
InitLen == Init

\* one slice is built from a source, then cloned, read and dropped
NextLen ==
    \/ last.op = "init" /\ \E src \in LenSrcs : New(1, src)
    \/ Clone(1, 2)
    \/ \E h \in Slots : Deref(h)
    \/ \E h \in Slots : Drop(h)

SpecLen == InitLen /\ [][NextLen]_vars

\* either header with one thread per handle: drops interleave
InitConc == Init

NextConc ==
    \/ \E n \in Slots, src \in ConcSrcs : New(n, src)
    \/ \E h \in Slots, n \in Slots : Clone(h, n)
    \/ \E h \in Slots : Deref(h)
    \/ \E h \in Slots : DropDec(h)
    \/ \E h \in Slots : DropTeardown(h)
    \/ \E h \in Slots : DropDealloc(h)

SpecConc == InitConc /\ [][NextConc]_vars

(* ------------------------------- claims ------------------------------- *)

\* the view of the handle in slot h
View(h) == deref(heap, T, H, handles[h])

Sentinel(h) == handles[h] = ZERO_SENTINEL

\* the slots whose handle points at a
Holders(a) == {h \in Live : handles[h] = a}

\* those of them whose drop has seen dec return true and is not over
Lasts(a) == {h \in Holders(a) : pc[h] # "idle"}

NoneLive == \A a \in Addrs : heap[a] = FreeBlock

\* C1: with the default header, new on a source of at most 255 elements
\* succeeds, and the handle it returns views the source's elements in the
\* source's order and has the source's length.
C1_NewRoundTrip ==
    (H = "BoxHeader" /\ last.op = "new" /\ Len(last.src) <= U8_MAX)
        => /\ last.result = "Ok"
           /\ last.n \in Live
           /\ View(last.n) = last.src
           /\ len(heap, handles[last.n]) = Len(last.src)

C1_Witness ==
    /\ H = "BoxHeader" /\ T.needs_drop
    /\ last.op = "new" /\ last.result = "Ok" /\ Len(last.src) = U8_MAX
    /\ View(last.n) = last.src

\* C2: with the default header, new on a source of more than 255 elements
\* returns TooLong without having called the allocator or written a header
\* or an element, and produces no handle.
C2_TooLongNoAlloc ==
    (H = "BoxHeader" /\ last.op = "new" /\ Len(last.src) > U8_MAX)
        => /\ last.result = "TooLong"
           /\ last.calls = NoCalls
           /\ last.n = 0
           /\ Live = {}
           /\ NoneLive

C2_Witness ==
    /\ H = "BoxHeader"
    /\ last.op = "new" /\ Len(last.src) = U8_MAX + 1 /\ last.result = "TooLong"

\* C3: new on an empty source succeeds without calling the allocator and
\* returns the handle at the sentinel's address, whose view is empty and
\* equal to the view of a default handle.
C3_EmptyIsSentinel ==
    (last.op = "new" /\ last.src = <<>>)
        => /\ last.result = "Ok"
           /\ last.calls = NoCalls
           /\ last.n \in Live
           /\ handles[last.n] = ZERO_SENTINEL
           /\ len(heap, handles[last.n]) = 0
           /\ View(last.n) = <<>>
           /\ View(last.n) = deref(heap, T, H, default)

C3_Witness ==
    /\ last.op = "new" /\ last.src = <<>> /\ last.result = "Ok"
    /\ handles[last.n] = ZERO_SENTINEL
    /\ \E a \in Addrs : heap[a].live

\* C4 (state part): with the default header, handles to allocations never
\* share one, and right after a clone of a non-empty handle the clone and
\* the original have equal views.
C4_Distinct ==
    H = "BoxHeader"
        => /\ \A g1 \in Live, g2 \in Live :
                (g1 # g2 /\ ~Sentinel(g1)) => handles[g1] # handles[g2]
           /\ (last.op = "clone" /\ ~last.sentinel)
                => /\ last.result = "Ok"
                   /\ handles[last.n] # handles[last.h]
                   /\ View(last.n) = View(last.h)

\* C4 (step part): a write through one handle leaves the view of every other
\* handle as it was.
C4_WriteStep ==
    \A g \in Live :
        (H = "BoxHeader" /\ last'.op = "write" /\ last'.h # g /\ g \in DOMAIN handles')
            => deref(heap', T', H', handles'[g]) = deref(heap, T, H, handles[g])

\* C4: deep-copy isolation of the clones of a handle with the default header.
C4_CloneIsolation == [](C4_Distinct) /\ [][C4_WriteStep]_vars

C4_Witness ==
    /\ H = "BoxHeader"
    /\ last.op = "write" /\ last.result = "Ok"
    /\ \E g \in Live : /\ g # last.h
                       /\ ~Sentinel(g)
                       /\ Len(View(g)) = Len(View(last.h))
                       /\ View(g) # View(last.h)

C6_HandleAddress ==
    /\ \A h \in Live :
        /\ handles[h] # NULL
        /\ \/ handles[h] = ZERO_SENTINEL
           \/ handles[h] \in Addrs /\ heap[handles[h]].live
    /\ \A a \in Addrs : heap[a].live => a # ZERO_SENTINEL

C6_Witness ==
    \E h1 \in Live, h2 \in Live :
        /\ handles[h1] = ZERO_SENTINEL
        /\ handles[h2] \in Addrs /\ heap[handles[h2]].live
        /\ pc[h2] = "torn"

\* C7: a clone of a handle to an allocation calls inc once; when inc returns
\* true the clone has the original's address and nothing is allocated or
\* written; when it returns false the clone is a handle to another
\* allocation with the original's length and elements; the clone never fails.
C7_CloneBranches ==
    (last.op = "clone" /\ ~last.sentinel)
        => /\ last.calls.inc = 1
           /\ last.result = "Ok"
           /\ last.n \in Live /\ last.h \in Live
           /\ IF last.calls.inc_true = 1
              THEN /\ handles[last.n] = handles[last.h]
                   /\ last.calls.alloc = 0
                   /\ last.calls.encode = 0
              ELSE /\ handles[last.n] # handles[last.h]
                   /\ handles[last.n] \in Addrs
                   /\ last.calls.alloc = 1
                   /\ heap[handles[last.n]].live
                   /\ heap[handles[last.n]].hdr.len = heap[handles[last.h]].hdr.len
                   /\ heap[handles[last.n]].data = heap[handles[last.h]].data

C7_Witness ==
    /\ last.op = "clone" /\ ~last.sentinel /\ last.calls.inc_true = 0
    /\ T.needs_drop
    /\ Len(heap[handles[last.n]].data) = U8_MAX
    /\ heap[handles[last.n]].data = heap[handles[last.h]].data

\* C8: with the shared header, of the handles to one allocation at most one
\* drop sees dec return true; while it tears down and frees, no other handle
\* to the allocation is left; the allocation stays allocated as long as a
\* handle to it is, is not allocated once none is, and is never freed twice.
C8_OneLastDrop ==
    H = "SharedHeader"
        => /\ \A a \in Addrs :
                /\ Cardinality(Lasts(a)) <= 1
                /\ Lasts(a) # {} => Holders(a) = Lasts(a)
                /\ heap[a].live <=> Holders(a) # {}
                /\ heap[a].live => heap[a].hdr.rc = Cardinality(Holders(a) \ Lasts(a))
                /\ ~heap[a].live => heap[a] = FreeBlock
           /\ \A h \in Live :
                (pc[h] = "torn" /\ T.needs_drop)
                    => \A j \in 1..Len(heap[handles[h]].data) :
                            heap[handles[h]].data[j].drops = 1
           /\ last.op = "dealloc"
                => /\ ~last.free.bad
                   /\ last.free.layout = last.free.allocated
                   /\ T.needs_drop => last.free.cellDrops = {1}

C8_Witness ==
    /\ H = "SharedHeader" /\ T.needs_drop
    /\ last.op = "dec"
    /\ Cardinality(Live) = 1
    /\ \A h \in Live : /\ pc[h] = "idle"
                       /\ handles[h] \in Addrs
                       /\ heap[handles[h]].hdr.rc = 1

\* C9: of every allocation, the layout and the element offset recomputed
\* from the length decoded from its header are the ones new allocated and
\* populated it with, and the decoded length is the one new was given; the
\* layout a drop hands to dealloc is the one the block was allocated with.
C9_LayoutAgrees ==
    /\ \A a \in Addrs :
        heap[a].live
            => /\ decode_len(heap[a].hdr) = heap[a].n
               /\ layout(T, H, decode_len(heap[a].hdr)) = heap[a].layout
               /\ data_offset(T, H, decode_len(heap[a].hdr)) = heap[a].off
               /\ Len(heap[a].data) = heap[a].n
    /\ (last.op = "drop" /\ ~last.sentinel) => last.free.layout = last.free.allocated

C9_Witness ==
    /\ last.op = "drop" /\ ~last.sentinel
    /\ last.free.layout = last.free.allocated
    /\ last.free.cells = MaxLen
    /\ \E a \in Addrs : /\ heap[a].live
                        /\ heap[a].n = 1
                        /\ \E j \in 1..Len(heap[a].data) : heap[a].data[j].v = 2

\* C10 (state part): the sentinel handle has length 0 and an empty view, and
\* a call on it reaches neither the header nor the allocator: a clone of it
\* is at the sentinel's address, and a write through it finds no element.
C10_SentinelCalls ==
    /\ \A h \in Live :
        Sentinel(h) => len(heap, handles[h]) = 0 /\ View(h) = <<>>
    /\ last.sentinel
        => /\ last.calls = NoCalls
           /\ last.free = NoFree
           /\ last.op = "deref" => last.view = <<>>
           /\ last.op = "clone" => last.result = "Ok" /\ handles[last.n] = ZERO_SENTINEL
           /\ last.op = "write" => last.result = "panic"

\* C10 (step part): a call on the sentinel handle leaves the heap as it was.
C10_SentinelStep == last'.sentinel => heap' = heap

\* C10: every operation on the sentinel handle short-circuits.
C10_SentinelShortCircuit == [](C10_SentinelCalls) /\ [][C10_SentinelStep]_vars

C10_Witness ==
    /\ last.op = "drop" /\ last.sentinel
    /\ \E h \in Live : ~Sentinel(h) /\ Len(View(h)) = MaxLen

====
